---- MODULE Spec2Model ----
(***************************************************************************)
(* Tower of Hanoi visual demo (kxngHADES/tower_of_hanoi).                  *)
(*                                                                         *)
(* The model follows the Game component: the React state of the component  *)
(* is the state of the machine, every event handler / timer callback is    *)
(* one action, and the effects that React runs after a handler's render    *)
(* are part of that handler's action.  Peg indices are 0-based as in the   *)
(* source; sequences (a rod's disks, the move list, the trace) are TLA+    *)
(* sequences, so element i of a JavaScript array is element i+1 here.      *)
(***************************************************************************)
EXTENDS Integers, Sequences, FiniteSets, TLC

VARIABLES
    pegs,               \* useState(3)
    disks,              \* useState(4)
    rods,               \* number[][]: rods[i] bottom-to-top
    selected,           \* number | null
    moves,              \* Move[]
    running,            \* boolean
    moveIndex,          \* number
    recursionTrace,     \* RecursionStep[]
    currentTraceIndex,  \* number
    userMoves,          \* number
    solveResult,        \* string | null
    timer,              \* the pending window.setTimeout of the playback effect
    calcIn,             \* arguments handed to minimalMoves
    calcOut             \* value returned by minimalMoves

vars == <<pegs, disks, rods, selected, moves, running, moveIndex,
          recursionTrace, currentTraceIndex, userMoves, solveResult, timer,
          calcIn, calcOut>>

gameVars == <<pegs, disks, rods, selected, moves, running, moveIndex,
              recursionTrace, currentTraceIndex, userMoves, solveResult, timer>>

calcVars == <<calcIn, calcOut>>

----------------------------------------------------------------------------
(* Bounds of the interactive model *)

PegBound == 3
DiskBound == 3
UserMovesBound == 3

(* Program constants *)

MinPegs == 2
MaxPegs == 8
MinDisks == 1
MaxDisks == 8

NoPeg == -1
Infinity == -1

----------------------------------------------------------------------------
(* Pure helpers *)

Min(a, b) == IF a < b THEN a ELSE b
Max(a, b) == IF a > b THEN a ELSE b

RECURSIVE MathPow(_, _)
MathPow(b, e) == IF e <= 0 THEN 1 ELSE b * MathPow(b, e - 1)

Top(stack) == stack[Len(stack)]
Pop(stack) == SubSeq(stack, 1, Len(stack) - 1)

\* Variant: the disks of rod 0 are listed smallest first
generateInitialRods_ascending(p, d) ==
    [i \in 0..(p - 1) |-> IF i = 0 THEN [j \in 1..d |-> j] ELSE <<>>]

generateInitialRods(p, d) ==
    [i \in 0..(p - 1) |-> IF i = 0 THEN [j \in 1..d |-> d - (j - 1)] ELSE <<>>]

RecursionStep(depth, n, from, to, aux, phase) ==
    [depth |-> depth, n |-> n, from |-> from, to |-> to, aux |-> aux,
     phase |-> phase]

RECURSIVE computeMovesWithTrace(_, _, _, _, _)
\* Variant: the second leg starts from the source peg instead of temp
computeMovesWithTrace_wrongSource(n, from, to, aux, depth) ==
    IF n <= 0 THEN [out |-> <<>>, trace |-> <<>>]
    ELSE IF n = 1 \/ Len(aux) = 0 THEN
        [out   |-> << <<from, to>> >>,
         trace |-> << RecursionStep(depth, n, from, to, aux, "enter"),
                      RecursionStep(depth, n, from, to, aux, "move"),
                      RecursionStep(depth, n, from, to, aux, "exit") >>]
    ELSE
        LET temp    == aux[1]
            restAux == Tail(aux)
            first   == computeMovesWithTrace(n - 1, from, temp,
                                             <<to>> \o restAux, depth + 1)
            second  == computeMovesWithTrace(n - 1, from, to,
                                             <<temp>> \o restAux, depth + 1)
        IN  [out   |-> first.out \o << <<from, to>> >> \o second.out,
             trace |-> << RecursionStep(depth, n, from, to, aux, "enter") >>
                       \o first.trace
                       \o << RecursionStep(depth, n, from, to, aux, "move") >>
                       \o second.trace
                       \o << RecursionStep(depth, n, from, to, aux, "exit") >>]

\* Variant: the target goes to the back of the auxiliary list, so deeper
\* calls take their temporary peg from the rest of the list
computeMovesWithTrace_rotatesAux(n, from, to, aux, depth) ==
    IF n <= 0 THEN [out |-> <<>>, trace |-> <<>>]
    ELSE IF n = 1 \/ Len(aux) = 0 THEN
        [out   |-> << <<from, to>> >>,
         trace |-> << RecursionStep(depth, n, from, to, aux, "enter"),
                      RecursionStep(depth, n, from, to, aux, "move"),
                      RecursionStep(depth, n, from, to, aux, "exit") >>]
    ELSE
        LET temp    == aux[1]
            restAux == Tail(aux)
            first   == computeMovesWithTrace(n - 1, from, temp,
                                             restAux \o <<to>>, depth + 1)
            second  == computeMovesWithTrace(n - 1, temp, to,
                                             restAux \o <<from>>, depth + 1)
        IN  [out   |-> first.out \o << <<from, to>> >> \o second.out,
             trace |-> << RecursionStep(depth, n, from, to, aux, "enter") >>
                       \o first.trace
                       \o << RecursionStep(depth, n, from, to, aux, "move") >>
                       \o second.trace
                       \o << RecursionStep(depth, n, from, to, aux, "exit") >>]

\* Variant: the base case returns on n <= 1 without emitting the move
computeMovesWithTrace_noBase(n, from, to, aux, depth) ==
    IF n <= 1 THEN [out |-> <<>>, trace |-> <<>>]
    ELSE IF Len(aux) = 0 THEN
        [out   |-> << <<from, to>> >>,
         trace |-> << RecursionStep(depth, n, from, to, aux, "enter"),
                      RecursionStep(depth, n, from, to, aux, "move"),
                      RecursionStep(depth, n, from, to, aux, "exit") >>]
    ELSE
        LET temp    == aux[1]
            restAux == Tail(aux)
            first   == computeMovesWithTrace(n - 1, from, temp,
                                             <<to>> \o restAux, depth + 1)
            second  == computeMovesWithTrace(n - 1, temp, to,
                                             <<from>> \o restAux, depth + 1)
        IN  [out   |-> first.out \o << <<from, to>> >> \o second.out,
             trace |-> << RecursionStep(depth, n, from, to, aux, "enter") >>
                       \o first.trace
                       \o << RecursionStep(depth, n, from, to, aux, "move") >>
                       \o second.trace
                       \o << RecursionStep(depth, n, from, to, aux, "exit") >>]

\* Variant: the recursive case forgets to push its own "move" trace step
computeMovesWithTrace_noMoveStep(n, from, to, aux, depth) ==
    IF n <= 0 THEN [out |-> <<>>, trace |-> <<>>]
    ELSE IF n = 1 \/ Len(aux) = 0 THEN
        [out   |-> << <<from, to>> >>,
         trace |-> << RecursionStep(depth, n, from, to, aux, "enter"),
                      RecursionStep(depth, n, from, to, aux, "move"),
                      RecursionStep(depth, n, from, to, aux, "exit") >>]
    ELSE
        LET temp    == aux[1]
            restAux == Tail(aux)
            first   == computeMovesWithTrace(n - 1, from, temp,
                                             <<to>> \o restAux, depth + 1)
            second  == computeMovesWithTrace(n - 1, temp, to,
                                             <<from>> \o restAux, depth + 1)
        IN  [out   |-> first.out \o << <<from, to>> >> \o second.out,
             trace |-> << RecursionStep(depth, n, from, to, aux, "enter") >>
                       \o first.trace
                       \o second.trace
                       \o << RecursionStep(depth, n, from, to, aux, "exit") >>]

computeMovesWithTrace(n, from, to, aux, depth) ==
    IF n <= 0 THEN [out |-> <<>>, trace |-> <<>>]
    ELSE IF n = 1 THEN
        [out   |-> << <<from, to>> >>,
         trace |-> << RecursionStep(depth, n, from, to, aux, "enter"),
                      RecursionStep(depth, n, from, to, aux, "move"),
                      RecursionStep(depth, n, from, to, aux, "exit") >>]
    ELSE IF Len(aux) = 0 THEN
        [out   |-> << <<from, to>> >>,
         trace |-> << RecursionStep(depth, n, from, to, aux, "enter"),
                      RecursionStep(depth, n, from, to, aux, "move"),
                      RecursionStep(depth, n, from, to, aux, "exit") >>]
    ELSE
        LET temp    == aux[1]
            restAux == Tail(aux)
            first   == computeMovesWithTrace(n - 1, from, temp,
                                             <<to>> \o restAux, depth + 1)
            second  == computeMovesWithTrace(n - 1, temp, to,
                                             <<from>> \o restAux, depth + 1)
        IN  [out   |-> first.out \o << <<from, to>> >> \o second.out,
             trace |-> << RecursionStep(depth, n, from, to, aux, "enter") >>
                       \o first.trace
                       \o << RecursionStep(depth, n, from, to, aux, "move") >>
                       \o second.trace
                       \o << RecursionStep(depth, n, from, to, aux, "exit") >>]

\* Arithmetic of JavaScript numbers restricted to the naturals and Infinity
InfPlus(a, b) == IF a = Infinity \/ b = Infinity THEN Infinity ELSE a + b
InfTwice(a) == IF a = Infinity THEN Infinity ELSE 2 * a
InfLess(a, b) == a # Infinity /\ (b = Infinity \/ a < b)

RECURSIVE M(_, _)
RECURSIVE MLoop(_, _, _, _)
\* Variant: the candidate forgets to count the x-disk transfer twice
MLoop_noTwice(p, k, x, res) ==
    IF x < k
    THEN LET candidate == InfPlus(M(p, x), M(p - 1, k - x))
         IN  MLoop(p, k, x + 1, IF InfLess(candidate, res) THEN candidate ELSE res)
    ELSE res

MLoop(p, k, x, res) ==
    IF x < k
    THEN LET candidate == InfPlus(InfTwice(M(p, x)), M(p - 1, k - x))
         IN  MLoop(p, k, x + 1, IF InfLess(candidate, res) THEN candidate ELSE res)
    ELSE res

\* Variant: the closed form for three pegs forgets the - 1
M_noMinusOne(p, k) ==
    IF k = 0 THEN 0
    ELSE IF k = 1 THEN 1
    ELSE IF p = 1 THEN Infinity
    ELSE IF p = 2 THEN Infinity
    ELSE IF p = 3 THEN MathPow(2, k)
    ELSE MLoop(p, k, 1, Infinity)

M(p, k) ==
    IF k = 0 THEN 0
    ELSE IF k = 1 THEN 1
    ELSE IF p = 1 THEN Infinity
    ELSE IF p = 2 THEN Infinity
    ELSE IF p = 3 THEN MathPow(2, k) - 1
    ELSE MLoop(p, k, 1, Infinity)

minimalMoves(p, n) == M(p, n)

optimalMovesForSetup ==
    LET val == minimalMoves(pegs, disks)
    IN  IF val # Infinity THEN val ELSE MathPow(2, disks) - 1

\* Variant: the disk is pushed on the destination but never popped
applyMove_noPop(prev, mv) ==
    LET from == mv[1]
        to   == mv[2]
        src  == prev[from]
        dst  == prev[to]
    IN  IF Len(src) = 0 THEN prev
        ELSE LET disk == Top(src)
             IN  IF Len(dst) = 0 \/ disk < Top(dst)
                 THEN [prev EXCEPT ![to] = Append(dst, disk)]
                 ELSE prev

\* Variant: the size check is missing
applyMove_noValidate(prev, mv) ==
    LET from == mv[1]
        to   == mv[2]
        src  == prev[from]
        dst  == prev[to]
    IN  IF Len(src) = 0 THEN prev
        ELSE [prev EXCEPT ![from] = Pop(src), ![to] = Append(dst, Top(src))]

applyMove(prev, mv) ==
    LET from == mv[1]
        to   == mv[2]
        src  == prev[from]
        dst  == prev[to]
    IN  IF Len(src) = 0 THEN prev
        ELSE LET disk == Top(src)
             IN  IF Len(dst) = 0 \/ disk < Top(dst)
                 THEN [prev EXCEPT ![from] = Pop(src), ![to] = Append(dst, disk)]
                 ELSE prev

\* while (nextTrace < recursionTrace.length && phase !== "move") nextTrace++
RECURSIVE nextTrace(_, _)
\* Variant: the loop stops on the first step whatever its phase
nextTrace_noSkip(trace, i) == i

nextTrace(trace, i) ==
    IF i < Len(trace) /\ trace[i + 1].phase # "move"
    THEN nextTrace(trace, i + 1)
    ELSE i

advanceTraceIndex(trace, cti) ==
    LET nt == nextTrace(trace, cti)
    IN  IF nt < Len(trace) THEN nt + 1 ELSE cti

solveAux(p) == [i \in 1..(p - 2) |-> i]

NoTimer ==
    [armed |-> FALSE, moves |-> <<>>, moveIndex |-> 0,
     recursionTrace |-> <<>>, currentTraceIndex |-> 0]

NoResult == [kind |-> "none", moves |-> 0, diff |-> 0, optimal |-> 0]

\* Variant: the effect never calls setRunning(false) at the end of the plan
playbackEffect_keepsRunning(run, mi, mv, trace, cti) ==
    IF run /\ mi < Len(mv)
    THEN [running |-> TRUE,
          timer   |-> [armed |-> TRUE, moves |-> mv, moveIndex |-> mi,
                       recursionTrace |-> trace, currentTraceIndex |-> cti]]
    ELSE [running |-> run,
          timer   |-> NoTimer]

\* The playback effect (deps: running, moveIndex, moves, speed): its cleanup
\* clears the previous timeout, its body schedules the next tick or stops.
playbackEffect(run, mi, mv, trace, cti) ==
    IF run /\ mi < Len(mv)
    THEN [running |-> TRUE,
          timer   |-> [armed |-> TRUE, moves |-> mv, moveIndex |-> mi,
                       recursionTrace |-> trace, currentTraceIndex |-> cti]]
    ELSE [running |-> IF mi >= Len(mv) THEN FALSE ELSE run,
          timer   |-> NoTimer]

\* recursionTrace.findIndex((s, i) => i > indexOf(step) && same depth and n
\* && s.phase === "exit"): the 0-based index found, or -1.  j is 0-based.
exitIndex(trace, j) ==
    LET found == {i \in (j + 1)..(Len(trace) - 1) :
                     /\ trace[i + 1].depth = trace[j + 1].depth
                     /\ trace[i + 1].n = trace[j + 1].n
                     /\ trace[i + 1].phase = "exit"}
    IN  IF found = {} THEN -1
        ELSE CHOOSE i \in found : \A o \in found : i <= o

\* Indices (0-based) kept by the first filter over slice(0, cti)
stillOpen(trace, cti) ==
    {j \in 0..(Min(cti, Len(trace)) - 1) :
        LET e == exitIndex(trace, j) IN e = -1 \/ e >= cti}

\* Indices kept by the second filter: the first of each (depth, n, from)
firstOfCall(trace, kept) ==
    {j \in kept :
        \A o \in kept :
            (/\ trace[o + 1].depth = trace[j + 1].depth
             /\ trace[o + 1].n = trace[j + 1].n
             /\ trace[o + 1].from = trace[j + 1].from) => o >= j}

RECURSIVE stepsAt(_, _)
stepsAt(trace, idx) ==
    IF idx = {} THEN <<>>
    ELSE LET j == CHOOSE i \in idx : \A o \in idx : i <= o
         IN  <<trace[j + 1]>> \o stepsAt(trace, idx \ {j})

activeStack(trace, cti) ==
    stepsAt(trace, firstOfCall(trace, stillOpen(trace, cti)))

----------------------------------------------------------------------------
(* Initial states: the component right after the configuration effect has *)
(* run for a configuration (pegs, disks).                                  *)

FreshGame(p, d) ==
    /\ pegs = p
    /\ disks = d
    /\ rods = generateInitialRods(p, d)
    /\ selected = NoPeg
    /\ moves = <<>>
    /\ running = FALSE
    /\ moveIndex = 0
    /\ recursionTrace = <<>>
    /\ currentTraceIndex = 0
    /\ userMoves = 0
    /\ solveResult = NoResult
    /\ timer = NoTimer

NoCalcIn == [p |-> 0, k |-> 0]
NoCalcOut == [done |-> FALSE, value |-> 0]

Init ==
    /\ \E p \in MinPegs..PegBound, d \in MinDisks..DiskBound : FreshGame(p, d)
    /\ calcIn = NoCalcIn
    /\ calcOut = NoCalcOut

----------------------------------------------------------------------------
(* Event handlers of the Game component *)

\* Variant: the move just made is not added to the count
solvedMessage_noPlusOne(um, optimal) ==
    LET diff == um - optimal
    IN  IF diff = 0
        THEN [kind |-> "optimal", moves |-> optimal, diff |-> 0, optimal |-> optimal]
        ELSE IF diff > 0
        THEN [kind |-> "more", moves |-> um, diff |-> diff, optimal |-> optimal]
        ELSE [kind |-> "fewer", moves |-> um, diff |-> 0 - diff, optimal |-> optimal]

solvedMessage(um, optimal) ==
    LET diff == um + 1 - optimal
    IN  IF diff = 0
        THEN [kind |-> "optimal", moves |-> optimal, diff |-> 0, optimal |-> optimal]
        ELSE IF diff > 0
        THEN [kind |-> "more", moves |-> um + 1, diff |-> diff, optimal |-> optimal]
        ELSE [kind |-> "fewer", moves |-> um + 1, diff |-> 0 - diff, optimal |-> optimal]

handleRodClick(index) ==
    /\ index \in 0..(pegs - 1)
    /\ UNCHANGED <<pegs, disks, moves, running, moveIndex, recursionTrace,
                   currentTraceIndex, timer, calcIn, calcOut>>
    /\ IF running
       THEN UNCHANGED <<rods, selected, userMoves, solveResult>>
       ELSE IF selected = NoPeg
       THEN /\ selected' = IF Len(rods[index]) = 0 THEN NoPeg ELSE index
            /\ UNCHANGED <<rods, userMoves, solveResult>>
       ELSE IF selected = index
       THEN /\ selected' = NoPeg
            /\ UNCHANGED <<rods, userMoves, solveResult>>
       ELSE LET src == rods[selected]
                dst == rods[index]
            IN  IF Len(src) = 0
                THEN /\ selected' = NoPeg
                     /\ UNCHANGED <<rods, userMoves, solveResult>>
                ELSE IF Len(dst) = 0 \/ Top(src) < Top(dst)
                THEN LET copy == [rods EXCEPT ![selected] = Pop(src),
                                              ![index] = Append(dst, Top(src))]
                     IN  /\ userMoves < UserMovesBound
                         /\ rods' = copy
                         /\ userMoves' = userMoves + 1
                         /\ solveResult' =
                              IF Len(copy[pegs - 1]) = disks
                              THEN solvedMessage(userMoves, optimalMovesForSetup)
                              ELSE solveResult
                         /\ selected' = NoPeg
                ELSE /\ selected' = NoPeg
                     /\ UNCHANGED <<rods, userMoves, solveResult>>

startSolve ==
    /\ ~running                       \* the button is disabled while running
    /\ LET plan == computeMovesWithTrace(disks, 0, pegs - 1, solveAux(pegs), 0)
           eff  == playbackEffect(TRUE, 0, plan.out, plan.trace, 0)
       IN  /\ moves' = plan.out
           /\ recursionTrace' = plan.trace
           /\ moveIndex' = 0
           /\ currentTraceIndex' = 0
           /\ running' = eff.running
           /\ timer' = eff.timer
    /\ UNCHANGED <<pegs, disks, rods, selected, userMoves, solveResult,
                   calcIn, calcOut>>

\* Variant: the early return on running is missing
stepSolve_noRunningCheck ==
    /\ UNCHANGED <<pegs, disks, selected, userMoves, solveResult, running,
                   timer, calcIn, calcOut>>
    /\ IF Len(moves) = 0
       THEN LET plan == computeMovesWithTrace(disks, 0, pegs - 1, solveAux(pegs), 0)
            IN  /\ moves' = plan.out
                /\ recursionTrace' = plan.trace
                /\ moveIndex' = 0
                /\ currentTraceIndex' = 0
                /\ UNCHANGED rods
       ELSE IF moveIndex < Len(moves)
       THEN /\ rods' = applyMove(rods, moves[moveIndex + 1])
            /\ moveIndex' = moveIndex + 1
            /\ currentTraceIndex' = advanceTraceIndex(recursionTrace, currentTraceIndex)
            /\ UNCHANGED <<moves, recursionTrace>>
       ELSE UNCHANGED <<rods, moves, moveIndex, recursionTrace, currentTraceIndex>>

stepSolve ==
    /\ UNCHANGED <<pegs, disks, selected, userMoves, solveResult, running,
                   timer, calcIn, calcOut>>
    /\ IF running
       THEN UNCHANGED <<rods, moves, moveIndex, recursionTrace, currentTraceIndex>>
       ELSE IF Len(moves) = 0
       THEN \* the plan is stored, but this call still sees the old (empty) moves
            LET plan == computeMovesWithTrace(disks, 0, pegs - 1, solveAux(pegs), 0)
            IN  /\ moves' = plan.out
                /\ recursionTrace' = plan.trace
                /\ moveIndex' = 0
                /\ currentTraceIndex' = 0
                /\ UNCHANGED rods
       ELSE IF moveIndex < Len(moves)
       THEN /\ rods' = applyMove(rods, moves[moveIndex + 1])
            /\ moveIndex' = moveIndex + 1
            /\ currentTraceIndex' = advanceTraceIndex(recursionTrace, currentTraceIndex)
            /\ UNCHANGED <<moves, recursionTrace>>
       ELSE UNCHANGED <<rods, moves, moveIndex, recursionTrace, currentTraceIndex>>

\* Variant: a played move is counted as a user move
playbackTick_counts ==
    /\ timer.armed
    /\ rods' = applyMove(rods, timer.moves[timer.moveIndex + 1])
    /\ moveIndex' = moveIndex + 1
    /\ userMoves' = userMoves + 1
    /\ currentTraceIndex' =
         LET nt == nextTrace(timer.recursionTrace, timer.currentTraceIndex)
         IN  IF nt < Len(timer.recursionTrace) THEN nt + 1 ELSE currentTraceIndex
    /\ LET eff == playbackEffect(running, moveIndex', moves, recursionTrace,
                                 currentTraceIndex')
       IN  /\ running' = eff.running
           /\ timer' = eff.timer
    /\ UNCHANGED <<pegs, disks, selected, moves, recursionTrace,
                   solveResult, calcIn, calcOut>>

\* The callback of the timeout scheduled by the playback effect
playbackTick ==
    /\ timer.armed
    /\ rods' = applyMove(rods, timer.moves[timer.moveIndex + 1])
    /\ moveIndex' = moveIndex + 1
    /\ currentTraceIndex' =
         LET nt == nextTrace(timer.recursionTrace, timer.currentTraceIndex)
         IN  IF nt < Len(timer.recursionTrace) THEN nt + 1 ELSE currentTraceIndex
    /\ LET eff == playbackEffect(running, moveIndex', moves, recursionTrace,
                                 currentTraceIndex')
       IN  /\ running' = eff.running
           /\ timer' = eff.timer
    /\ UNCHANGED <<pegs, disks, selected, moves, recursionTrace, userMoves,
                   solveResult, calcIn, calcOut>>

\* Variant: the pending timeout survives the reset
resetGame_keepsTimer ==
    /\ rods' = generateInitialRods(pegs, disks)
    /\ selected' = NoPeg
    /\ moves' = <<>>
    /\ recursionTrace' = <<>>
    /\ moveIndex' = 0
    /\ currentTraceIndex' = 0
    /\ running' = FALSE
    /\ userMoves' = 0
    /\ solveResult' = NoResult
    /\ UNCHANGED <<timer, pegs, disks, calcIn, calcOut>>

resetGame ==
    /\ rods' = generateInitialRods(pegs, disks)
    /\ selected' = NoPeg
    /\ moves' = <<>>
    /\ recursionTrace' = <<>>
    /\ moveIndex' = 0
    /\ currentTraceIndex' = 0
    /\ running' = FALSE
    /\ userMoves' = 0
    /\ solveResult' = NoResult
    /\ timer' = NoTimer
    /\ UNCHANGED <<pegs, disks, calcIn, calcOut>>

\* The effect with deps [pegs, disks], followed by the playback effect
configEffect(p, d) ==
    /\ rods' = generateInitialRods(p, d)
    /\ selected' = NoPeg
    /\ moves' = <<>>
    /\ moveIndex' = 0
    /\ userMoves' = 0
    /\ solveResult' = NoResult
    /\ LET eff == playbackEffect(FALSE, 0, <<>>, recursionTrace, currentTraceIndex)
       IN  /\ running' = eff.running
           /\ timer' = eff.timer
    /\ UNCHANGED <<recursionTrace, currentTraceIndex, calcIn, calcOut>>

setPegs(v) ==
    LET p == Max(MinPegs, Min(MaxPegs, v))
    IN  IF p = pegs
        THEN UNCHANGED vars
        ELSE /\ pegs' = p
             /\ UNCHANGED disks
             /\ configEffect(p, disks)

setDisks(v) ==
    LET d == Max(MinDisks, Min(MaxDisks, v))
    IN  IF d = disks
        THEN UNCHANGED vars
        ELSE /\ disks' = d
             /\ UNCHANGED pegs
             /\ configEffect(pegs, d)

RodClick == \E index \in 0..(pegs - 1) : handleRodClick(index)
ChangePegs == \E v \in 0..PegBound : setPegs(v)
ChangeDisks == \E v \in 0..DiskBound : setDisks(v)

Next ==
    \/ RodClick
    \/ startSolve
    \/ stepSolve
    \/ playbackTick
    \/ resetGame
    \/ ChangePegs
    \/ ChangeDisks

Spec == Init /\ [][Next]_vars

----------------------------------------------------------------------------
(* The generator exercised on its own: Solve pressed once on a fresh puzzle *)
(* of any configuration the inputs allow, then auto-play left to run, so   *)
(* that the generated plan is applied move by move to the initial state.   *)

InitGen ==
    /\ \E p \in MinPegs..MaxPegs, d \in MinDisks..MaxDisks : FreshGame(p, d)
    /\ calcIn = NoCalcIn
    /\ calcOut = NoCalcOut

GenSolve == Len(moves) = 0 /\ startSolve

NextGen ==
    \/ GenSolve
    \/ playbackTick

SpecGen == InitGen /\ [][NextGen]_vars

\* The same, with the browser's guarantee that a scheduled timeout that is
\* not cleared fires: the tick is taken if it stays pending.
SpecGenFair == InitGen /\ [][NextGen]_vars /\ WF_vars(playbackTick)

----------------------------------------------------------------------------
(* The minimal-moves calculator exercised on its own over p in 1..8 and    *)
(* k in 0..8.                                                              *)

InitCalc ==
    /\ FreshGame(3, 4)
    /\ \E p \in 1..MaxPegs, k \in 0..MaxDisks : calcIn = [p |-> p, k |-> k]
    /\ calcOut = NoCalcOut

CallMinimalMoves ==
    /\ ~calcOut.done
    /\ calcOut' = [done |-> TRUE, value |-> minimalMoves(calcIn.p, calcIn.k)]
    /\ UNCHANGED <<calcIn, gameVars>>

NextCalc == CallMinimalMoves

SpecCalc == InitCalc /\ [][NextCalc]_vars

----------------------------------------------------------------------------
(* Vocabulary of the properties *)

FullStack(d) == [j \in 1..d |-> d - (j - 1)]

Positions == {<<i, j>> \in (0..(pegs - 1)) \X (1..disks) : j <= Len(rods[i])}

RECURSIVE TotalHeight(_)
TotalHeight(i) == IF i < 0 THEN 0 ELSE Len(rods[i]) + TotalHeight(i - 1)

\* The validator's contract: the top disk of from may go onto to
LegalMove(r, from, to) ==
    /\ from # to
    /\ Len(r[from]) > 0
    /\ (Len(r[to]) = 0 \/ Top(r[to]) > Top(r[from]))

AllOnLastPeg ==
    \A i \in 0..(pegs - 1) :
        rods[i] = IF i = pegs - 1 THEN FullStack(disks) ELSE <<>>

PlanLoaded == Len(moves) > 0
PlanPlayed == PlanLoaded /\ moveIndex = Len(moves)

MoveEvents(trace) ==
    LET ev == SelectSeq(trace, LAMBDA st : st.phase = "move")
    IN  [i \in 1..Len(ev) |-> <<ev[i].from, ev[i].to>>]

----------------------------------------------------------------------------
(* C1: in every reachable state the pegs together hold exactly the disks   *)
(* 1..disks, each size once on exactly one peg.                            *)
C1_DisksConserved ==
    /\ DOMAIN rods = 0..(pegs - 1)
    /\ TotalHeight(pegs - 1) = disks
    /\ \A size \in 1..disks :
          Cardinality({pos \in Positions : rods[pos[1]][pos[2]] = size}) = 1

C1_Witness ==
    /\ userMoves > 0
    /\ moveIndex > 0
    /\ Cardinality({i \in 0..(pegs - 1) : Len(rods[i]) > 0}) >= 3

(* C2: in every reachable state the sizes on every peg strictly decrease   *)
(* from bottom to top.                                                     *)
C2_StrictlyDecreasing ==
    \A i \in 0..(pegs - 1) :
        \A j \in 1..(Len(rods[i]) - 1) : rods[i][j] > rods[i][j + 1]

C2_Witness ==
    /\ userMoves > 0
    /\ moveIndex > 0
    /\ \E i \in 1..(pegs - 1) : Len(rods[i]) >= 2

(* C3: for pegs in 3..8 and disks in 1..8 every move of the generated plan *)
(* is legal in the state it is applied to, starting from the initial       *)
(* state, and after the last one all disks are on peg pegs-1.              *)
C3_PlanLegalAndSolves ==
    (pegs >= 3 /\ PlanLoaded) =>
        /\ moveIndex < Len(moves) =>
              LegalMove(rods, moves[moveIndex + 1][1], moves[moveIndex + 1][2])
        /\ moveIndex = Len(moves) => AllOnLastPeg

C3_Witness == pegs = 8 /\ disks = 8 /\ PlanPlayed /\ AllOnLastPeg

(* C4: with 3 pegs the generator produces exactly 2^n - 1 moves, which is  *)
(* minimalMoves(3, n), for n in 1..8.                                      *)
C4_ThreePegCount ==
    (pegs = 3 /\ PlanLoaded) =>
        /\ Len(moves) = 2 ^ disks - 1
        /\ Len(moves) = minimalMoves(3, disks)

C4_Witness == pegs = 3 /\ disks = 8 /\ Len(moves) = 255

(* C5: for 3 pegs and 3 disks the plan is exactly                          *)
(* (0,2),(0,1),(2,1),(0,2),(1,0),(1,2),(0,2).                              *)
C5_ThreeDiskPlan ==
    (pegs = 3 /\ disks = 3 /\ PlanLoaded) =>
        moves = << <<0, 2>>, <<0, 1>>, <<2, 1>>, <<0, 2>>,
                   <<1, 0>>, <<1, 2>>, <<0, 2>> >>

C5_Witness == pegs = 3 /\ disks = 3 /\ PlanLoaded /\ moveIndex = 7

(* C6: the "move" steps of a generated trace are as many as the moves, and *)
(* the i-th of them has the (from, to) pair of the i-th move.              *)
C6_MoveStepsMatchMoves ==
    Len(recursionTrace) > 0 => MoveEvents(recursionTrace) = moves

C6_Witness ==
    /\ pegs = 5
    /\ disks = 6
    /\ Len(moves) = 63
    /\ Len(recursionTrace) = 3 * 63

----------------------------------------------------------------------------
(* Attempted moves, as steps of the machine *)

\* An illegal move per the validator's contract
IllegalMove(r, from, to) ==
    \/ from = to
    \/ Len(r[from]) = 0
    \/ (Len(r[to]) > 0 /\ Top(r[from]) > Top(r[to]))

\* A rod click that attempts the move selected -> index
ClickAttempt(index) == ~running /\ selected # NoPeg /\ handleRodClick(index)

\* A Step click that plays a move
StepAttempt == ~running /\ PlanLoaded /\ moveIndex < Len(moves) /\ stepSolve

TickMove == timer.moves[timer.moveIndex + 1]
StepMove == moves[moveIndex + 1]

IllegalTick == playbackTick /\ IllegalMove(rods, TickMove[1], TickMove[2])
IllegalStep == StepAttempt /\ IllegalMove(rods, StepMove[1], StepMove[2])

(* C7: an attempted illegal move (source empty, source = destination, or   *)
(* source top larger than destination top) leaves every peg unchanged,     *)
(* for a rod click and for playback (Step or timer tick); a rejected click *)
(* also leaves the user-move counter unchanged.                            *)
C7_IllegalMoveChangesNothing ==
    [][ /\ \A index \in 0..(pegs - 1) :
              (ClickAttempt(index) /\ IllegalMove(rods, selected, index))
                  => (rods' = rods /\ userMoves' = userMoves)
        /\ (IllegalTick \/ IllegalStep) => rods' = rods ]_vars

\* playback has run to its end over a position the plan was not made for
C7_Witness ==
    /\ pegs >= 3
    /\ PlanPlayed
    /\ ~running
    /\ userMoves = 1
    /\ solveResult = NoResult
    /\ ~AllOnLastPeg

(* C8: playback that attempts an illegal move learns of the failure: the   *)
(* move is not counted as played, so moveIndex and the trace index stay.   *)
C8_IllegalPlaybackNotCounted ==
    [][ (IllegalTick \/ IllegalStep)
            => (moveIndex' = moveIndex /\ currentTraceIndex' = currentTraceIndex) ]_vars

(* C9: the user-move counter goes up by exactly one on a successful rod-   *)
(* click move and is left alone by rejected clicks, Step clicks, timer     *)
(* ticks and Solve.                                                        *)
C9_UserMovesCountsPlayerMoves ==
    [][ /\ RodClick => userMoves' = IF rods' # rods THEN userMoves + 1 ELSE userMoves
        /\ (stepSolve \/ playbackTick \/ startSolve) => userMoves' = userMoves ]_vars

C9_Witness ==
    /\ userMoves = 2
    /\ moveIndex = 3
    /\ ~running

----------------------------------------------------------------------------
(* The reference definition of the minimal number of moves *)

SetMin(S) == CHOOSE m \in S : \A o \in S : m <= o

RefM[p \in 1..MaxPegs, k \in 0..MaxDisks] ==
    IF k = 0 THEN 0
    ELSE IF k = 1 THEN 1
    ELSE IF p <= 2 THEN Infinity
    ELSE IF p = 3 THEN 2 ^ k - 1
    ELSE SetMin({2 * RefM[p, x] + RefM[p - 1, k - x] : x \in 1..(k - 1)})

FourPegValues == <<1, 3, 5, 9, 13, 17, 25, 33>>

(* C10: for p in 1..8 and k in 0..8 minimalMoves(p, k) is the reference    *)
(* value: 0 for k = 0, 1 for k = 1, the unsolvable sentinel for p <= 2 and *)
(* k >= 2, 2^k - 1 for p = 3, the Frame-Stewart minimum for p > 3          *)
(* (1,3,5,9,13,17,25,33 for p = 4).                                        *)
C10_MinimalMovesIsReference ==
    calcOut.done =>
        /\ calcOut.value = RefM[calcIn.p, calcIn.k]
        /\ (calcIn.p = 4 /\ calcIn.k >= 1) => calcOut.value = FourPegValues[calcIn.k]

C10_Witness == calcOut.done /\ calcIn.p = 4 /\ calcIn.k = 8 /\ calcOut.value = 33

----------------------------------------------------------------------------
\* The plan of a one-disk puzzle on the same pegs: one ordinary, legal move
OrdinaryOneMovePlan == computeMovesWithTrace(1, 0, pegs - 1, solveAux(pegs), 0).out

(* C11: with more than one disk and no auxiliary peg (pegs = 2, disks >= 2) *)
(* the single move the generator emits is flagged as a degenerate fallback: *)
(* the plan is not an ordinary move list, so a caller can tell it apart     *)
(* from a physically valid solution.                                        *)
C11_FallbackIsFlagged ==
    (pegs = 2 /\ disks >= 2 /\ PlanLoaded) =>
        /\ moves # OrdinaryOneMovePlan
        /\ \E i \in 1..Len(moves) : moves[i] \notin (0..(pegs - 1)) \X (0..(pegs - 1))

----------------------------------------------------------------------------
(* The active-call-stack derivation exercised on its own: the trace of a   *)
(* configuration and every prefix length 0..length of that trace.          *)

StackDiskBound == 4

solveTrace(p, d) == computeMovesWithTrace(d, 0, p - 1, solveAux(p), 0).trace

InitStack ==
    /\ FreshGame(3, 4)
    /\ \E p \in MinPegs..MaxPegs, d \in MinDisks..StackDiskBound :
          \E prefix \in 0..Len(solveTrace(p, d)) :
              calcIn = [p |-> p, k |-> d, prefix |-> prefix]
    /\ calcOut = [done |-> FALSE, value |-> <<>>]

DeriveActiveStack ==
    /\ ~calcOut.done
    /\ calcOut' = [done  |-> TRUE,
                   value |-> activeStack(solveTrace(calcIn.p, calcIn.k), calcIn.prefix)]
    /\ UNCHANGED <<calcIn, gameVars>>

NextStack == DeriveActiveStack

SpecStack == InitStack /\ [][NextStack]_vars

StackTrace == solveTrace(calcIn.p, calcIn.k)

(* C12: for every generated trace the derived active call stack is empty   *)
(* at prefix length 0 and empty at prefix length = length of the trace.    *)
C12_StackEmptyAtBothEnds ==
    (calcOut.done /\ calcIn.prefix \in {0, Len(StackTrace)}) => calcOut.value = <<>>

----------------------------------------------------------------------------
\* The calls of a trace are its "enter" steps; the exit of the call entered
\* at (1-based) position e is the first later "exit" step of the same depth.
OwnExit(trace, e) ==
    CHOOSE x \in (e + 1)..Len(trace) :
        /\ trace[x].phase = "exit"
        /\ trace[x].depth = trace[e].depth
        /\ \A y \in (e + 1)..(x - 1) :
               ~(trace[y].phase = "exit" /\ trace[y].depth = trace[e].depth)

\* Entered inside the prefix, own exit not inside the prefix
OpenCalls(trace, prefix) ==
    {e \in 1..Len(trace) :
        /\ trace[e].phase = "enter"
        /\ e <= prefix
        /\ OwnExit(trace, e) > prefix}

CallOf(st) == [depth |-> st.depth, n |-> st.n, from |-> st.from, to |-> st.to,
               aux |-> st.aux]

RECURSIVE CallsAt(_, _)
CallsAt(trace, idx) ==
    IF idx = {} THEN <<>>
    ELSE LET e == CHOOSE i \in idx : \A o \in idx : i <= o
         IN  <<CallOf(trace[e])>> \o CallsAt(trace, idx \ {e})

TrueStack(trace, prefix) == CallsAt(trace, OpenCalls(trace, prefix))

(* C13: for every generated trace and every prefix length the derived      *)
(* active call stack is exactly the calls entered inside the prefix whose  *)
(* own exit is not inside the prefix, one entry per call, outermost first. *)
C13_StackIsTrueStack ==
    calcOut.done =>
        [i \in 1..Len(calcOut.value) |-> CallOf(calcOut.value[i])]
            = TrueStack(StackTrace, calcIn.prefix)

----------------------------------------------------------------------------
MoveStepsIn(trace, prefix) ==
    Cardinality({i \in 1..Min(prefix, Len(trace)) : trace[i].phase = "move"})

\* The prefix length that ends just after the next "move" step at or after cti
AfterNextMove(trace, cti) ==
    CHOOSE i \in (cti + 1)..Len(trace) :
        /\ trace[i].phase = "move"
        /\ \A o \in (cti + 1)..(i - 1) : trace[o].phase # "move"

(* C14: a playback step (timer tick, or Step click that plays a move)      *)
(* applies one move, adds exactly 1 to moveIndex and puts the trace index  *)
(* just after the next "move" step; so while a plan is loaded the number   *)
(* of "move" steps before the trace index equals moveIndex.                *)
C14_TraceIndexFollowsMoveIndex ==
    /\ [](PlanLoaded => MoveStepsIn(recursionTrace, currentTraceIndex) = moveIndex)
    /\ [][ /\ playbackTick =>
                /\ rods' = applyMove(rods, moves[moveIndex + 1])
                /\ moveIndex' = moveIndex + 1
                /\ currentTraceIndex' = AfterNextMove(recursionTrace, currentTraceIndex)
           /\ StepAttempt =>
                /\ rods' = applyMove(rods, moves[moveIndex + 1])
                /\ moveIndex' = moveIndex + 1
                /\ currentTraceIndex' = AfterNextMove(recursionTrace, currentTraceIndex)
       ]_vars

C14_Witness ==
    /\ pegs = 3
    /\ disks = 3
    /\ moveIndex = 4
    /\ currentTraceIndex = 11
    /\ userMoves > 0

----------------------------------------------------------------------------
ConfigChanged == (ChangePegs \/ ChangeDisks) /\ (pegs' # pegs \/ disks' # disks)

(* C15: manual play and auto-play never act together: while running, a rod *)
(* click and a Step click change nothing, Solve cannot be started again,   *)
(* and the one pending tick is the tick for the current moveIndex, which   *)
(* it then increases, so no two ticks play the same moveIndex.             *)
C15_ManualAndAutoExclusive ==
    /\ [](timer.armed =>
            /\ running
            /\ moveIndex < Len(moves)
            /\ timer.moves = moves
            /\ timer.moveIndex = moveIndex)
    /\ [][ /\ (running /\ (RodClick \/ stepSolve)) =>
                UNCHANGED <<rods, selected, moveIndex, currentTraceIndex, userMoves>>
           /\ startSolve => ~running
           /\ playbackTick => moveIndex' = timer.moveIndex + 1
       ]_vars

C15_Witness ==
    /\ running
    /\ timer.armed
    /\ moveIndex >= 2
    /\ selected # NoPeg

(* C16: Reset during auto-play cancels the pending tick: after Reset the   *)
(* pegs are the initial ones, moveIndex is 0, running is false and no tick *)
(* is pending; with running false no tick ever fires.                      *)
C16_ResetCancelsTick ==
    /\ [](~running => ~timer.armed)
    /\ [][ /\ resetGame =>
                /\ rods' = generateInitialRods(pegs, disks)
                /\ moveIndex' = 0
                /\ ~running'
                /\ ~timer'.armed
           /\ ~running => ~playbackTick
       ]_vars

\* auto-play under way on a position the player has touched: Reset is enabled
C16_Witness ==
    /\ running
    /\ timer.armed
    /\ moveIndex >= 1
    /\ userMoves >= 1
    /\ rods # generateInitialRods(pegs, disks)

(* C17: a change of the peg count or the disk count discards in one step   *)
(* the move sequence, the recursion trace with its index and the pending   *)
(* timer: right after it the moves and the trace are empty, moveIndex and  *)
(* the trace index are 0, running is false and no tick is pending.         *)
C17_ConfigChangeDiscardsPlan ==
    [][ ConfigChanged =>
            /\ moves' = <<>>
            /\ moveIndex' = 0
            /\ recursionTrace' = <<>>
            /\ currentTraceIndex' = 0
            /\ ~running'
            /\ ~timer'.armed ]_vars

----------------------------------------------------------------------------
\* All disks on peg 0, disks at the bottom down to 1 on top, nothing selected,
\* no user move counted
BoardFresh ==
    /\ DOMAIN rods = 0..(pegs - 1)
    /\ Len(rods[0]) = disks
    /\ \A j \in 1..disks : rods[0][j] = disks + 1 - j
    /\ \A i \in 1..(pegs - 1) : rods[i] = <<>>
    /\ selected = NoPeg
    /\ userMoves = 0

(* C18: the initial state, and the state after every Reset and after every *)
(* configuration change, has all disks on peg 0 ordered disks (bottom)     *)
(* down to 1 (top), every other peg empty, no peg selected and the         *)
(* user-move counter at 0.                                                 *)
C18_FreshBoardAfterResetAndConfig ==
    /\ BoardFresh
    /\ [][ (resetGame \/ ConfigChanged) => BoardFresh' ]_vars

\* reached only by a configuration change made after moves were played
C18_Witness ==
    /\ BoardFresh
    /\ moves = <<>>
    /\ currentTraceIndex > 0
    /\ disks >= 2

----------------------------------------------------------------------------
\* a is a number of moves not below the bound b computed by minimalMoves
NotBelow(a, b) == b # Infinity /\ a >= b

\* A rod click that completes the puzzle, so that a solve result is reported
SolvingClick == RodClick /\ rods' # rods /\ Len(rods'[pegs - 1]) = disks

(* C19: whenever a solve result is reported, the reported number of moves  *)
(* is not smaller than minimalMoves(pegs, disks); the "fewer than tracked  *)
(* optimal" outcome is unreachable.                                        *)
C19_NeverFewerThanOptimal ==
    solveResult.kind # "none" =>
        /\ solveResult.kind # "fewer"
        /\ NotBelow(solveResult.moves, minimalMoves(pegs, disks))

(* C19 as amended: a solve result reported while no generator-driven move  *)
(* has been played since the last Reset or configuration change            *)
(* (moveIndex = 0) is never "fewer" and never below minimalMoves.          *)
C19_NeverFewerWithoutPlayback ==
    [][ (SolvingClick /\ moveIndex = 0) =>
            /\ solveResult'.kind \in {"optimal", "more"}
            /\ NotBelow(solveResult'.moves, minimalMoves(pegs, disks)) ]_vars

C19_Witness ==
    /\ pegs = 3
    /\ disks = 2
    /\ moveIndex = 0
    /\ solveResult.kind = "optimal"
    /\ solveResult.moves = 3
    /\ userMoves = 3

----------------------------------------------------------------------------
(* C20: for pegs in 3..8 and disks in 1..8, minimalMoves(pegs, disks) is   *)
(* finite and at most the number of moves the generator produces, with     *)
(* equality for pegs = 3.                                                  *)
C20_MinimalMovesBelowPlanLength ==
    (pegs >= 3 /\ PlanLoaded) =>
        LET bound == minimalMoves(pegs, disks)
        IN  /\ bound # Infinity
            /\ bound >= 0
            /\ bound <= Len(moves)
            /\ (pegs = 3 => bound = Len(moves))

\* four pegs, where the bound (33) is strictly below the plan length (255)
C20_Witness ==
    /\ pegs = 4
    /\ disks = 8
    /\ Len(moves) = 255
    /\ minimalMoves(pegs, disks) = 33

----------------------------------------------------------------------------
\* Auto-play has come to rest on the solved puzzle
SolvedAtRest ==
    /\ ~running
    /\ ~timer.armed
    /\ moveIndex = Len(moves)
    /\ Len(moves) = 2 ^ disks - 1
    /\ AllOnLastPeg

(* C21: Solve pressed on the initial state with pegs in 3..8 and nothing   *)
(* else intervening: under fair firing of the timer the system eventually  *)
(* reaches running = false, moveIndex = number of moves = 2^disks - 1 and  *)
(* all disks on peg pegs-1, and running stays false from then on.          *)
C21_AutoPlayTerminatesSolved ==
    (pegs >= 3 /\ running /\ moveIndex = 0) ~> []SolvedAtRest

C21_Witness ==
    /\ pegs = 5
    /\ disks = 7
    /\ moveIndex = 127
    /\ SolvedAtRest

----------------------------------------------------------------------------
(* C22: whenever playback of a plan completes (moveIndex reaches the       *)
(* length of a non-empty move sequence) with pegs in 3..8, all disks are   *)
(* on peg pegs-1, from every state in which Solve or Step can be pressed:  *)
(* after moves by hand, after a partly stepped plan, after a completed     *)
(* solve.                                                                  *)
C22_CompletedPlaybackSolves ==
    (pegs >= 3 /\ PlanPlayed) => AllOnLastPeg

----------------------------------------------------------------------------
\* A Step click made while not running with no plan loaded
StepOnEmptyPlan == ~running /\ Len(moves) = 0 /\ stepSolve

\* The move a Step click has to play: the move at moveIndex of the plan
\* that is loaded once the click is over
PlayedOne ==
    /\ PlanLoaded'
    /\ moveIndex' = moveIndex + 1
    /\ rods' = applyMove(rods, moves'[moveIndex + 1])

(* C23: a Step click made while not running and while unplayed moves       *)
(* remain plays exactly one move; a Step click made when no plan is loaded *)
(* generates the plan and plays its first move in that same click, so k    *)
(* Step clicks from a fresh puzzle leave moveIndex = k.                     *)
C23_StepPlaysOneMove ==
    [][ (StepAttempt \/ StepOnEmptyPlan) => PlayedOne ]_vars

----------------------------------------------------------------------------
\* The pegs the generator works with: source, first auxiliary, target
WorkingPegs == {0, 1, pegs - 1}

\* The calls made by the call entered at (1-based) position e of the trace:
\* the "enter" steps one level deeper before the call's own exit
ChildCalls(trace, e) ==
    {c \in (e + 1)..(OwnExit(trace, e) - 1) :
        trace[c].phase = "enter" /\ trace[c].depth = trace[e].depth + 1}

(* C24: for pegs in 4..8 and disks in 1..8 the generator never shrinks its *)
(* auxiliary list: every recursive call gets an auxiliary list as long as  *)
(* its parent's, every move is between two of the pegs 0, 1 and pegs-1     *)
(* (pegs 2..pegs-2 are never touched), and the plan has exactly            *)
(* 2^disks - 1 moves, as for 3 pegs.                                       *)
C24_AuxiliaryListNeverShrinks ==
    (pegs >= 4 /\ PlanLoaded) =>
        /\ Len(recursionTrace[1].aux) = pegs - 2
        /\ \A e \in 1..Len(recursionTrace) :
               recursionTrace[e].phase = "enter" =>
                   \A c \in ChildCalls(recursionTrace, e) :
                       Len(recursionTrace[c].aux) = Len(recursionTrace[e].aux)
        /\ \A i \in 1..Len(moves) :
               moves[i][1] \in WorkingPegs /\ moves[i][2] \in WorkingPegs
        /\ \A i \in 0..(pegs - 1) :
               i \notin WorkingPegs => rods[i] = <<>>
        /\ Len(moves) = 2 ^ disks - 1
        /\ Len(moves) = Len(computeMovesWithTrace(disks, 0, 2, <<1>>, 0).out)

C24_Witness ==
    /\ pegs = 6
    /\ disks = 5
    /\ Len(moves) = 31
    /\ moveIndex = 31
    /\ rods[5] = FullStack(5)

----------------------------------------------------------------------------
\* What the call-stack view shows: the stack derived from the stored trace
\* and trace index; the view prints "No active calls" when it is empty
displayedStack == activeStack(recursionTrace, currentTraceIndex)

(* C25: once playback has played the last move of a plan (moveIndex =      *)
(* number of moves, running false) the displayed active call stack is      *)
(* empty: the trace index is at a position where every call of the trace   *)
(* counts as exited.                                                       *)
C25_StackEmptyAfterPlayback ==
    (PlanPlayed /\ ~running) => displayedStack = <<>>

====
